---- MODULE Spec2Model ----
(***************************************************************************)
(* Payoff calculator: the amortization formula (calculator.py,             *)
(* calculate_minimum_payment), the monthly transition (calculator.py,      *)
(* process_month) and the month loop that folds it (simulation.py,         *)
(* run_simulation).                                                        *)
(*                                                                         *)
(* Numbers.  The program computes in binary floating point.  Here a        *)
(* dollar amount is an integer number of 1/MoneyScale dollars and a rate   *)
(* or growth factor an integer number of 1/RateScale; products and         *)
(* quotients are rounded to the nearest unit.  Sums and differences are    *)
(* exact, but for the one sum whose rounding decides a comparison for      *)
(* equality: total_needed = balance + interest in process_month, from      *)
(* which the interest is subtracted again and the new balance compared     *)
(* with 0.  The floating-point sum is the exact one, or one unit in the    *)
(* last place above or below it, depending on digits of the balance that   *)
(* the fixed point does not carry; the variable rounding holds that error  *)
(* for the balance at hand.  The formulas of the program are checked with  *)
(* that sum exact (arithmetic = "exact"), what the program decides by      *)
(* comparing the balance with 0 is checked with the sum rounded            *)
(* (arithmetic = "rounded").  An annual rate is given as a decimal         *)
(* [m, e] = m * 10^-e, so that a rate far below the arithmetic's           *)
(* resolution (1e-12) is still a positive rate, as it is for the program.  *)
(***************************************************************************)
EXTENDS Integers, Sequences, FiniteSets

VARIABLES
    pc,              \* where the program stands
    amount,          \* assertPaymentIsCorrect: the loan amount
    rate,            \* assertPaymentIsCorrect: the annual rate
    months,          \* assertPaymentIsCorrect: the term
    payment,         \* what calculate_minimum_payment returned or raised
    balance,         \* assertPaymentIsCorrect: the simulated balance
    elapsed,         \* assertPaymentIsCorrect: months simulated so far
    config,          \* run_simulation: the PaymentConfig
    lump_sum,        \* run_simulation: the lump sum asked for
    loan_state,      \* run_simulation: the current LoanState
    savings_state,   \* run_simulation: the current SavingsState
    monthly_result,  \* run_simulation: the last MonthlyResult
    month,           \* run_simulation: the loop's index
    arithmetic,      \* "exact", or "rounded": the sum balance + interest rounds
    rounding,        \* the rounding error of the next balance + interest
    result           \* run_simulation: the SimulationResult being built

payVars == <<amount, rate, months, payment, balance, elapsed>>
runVars == <<config, lump_sum, loan_state, savings_state, monthly_result, month,
            arithmetic, rounding, result>>
vars == <<pc, amount, rate, months, payment, balance, elapsed, config, lump_sum,
          loan_state, savings_state, monthly_result, month, arithmetic, rounding,
          result>>

(* ------------------------------ arithmetic ----------------------------- *)

RECURSIVE Pow10(_)
Pow10(k) == IF k <= 0 THEN 1 ELSE 10 * Pow10(k - 1)

MoneyScale == Pow10(4)
RateScale == Pow10(9)
Limb == Pow10(3)

Abs(x) == IF x < 0 THEN -x ELSE x
Min2(a, b) == IF a <= b THEN a ELSE b
Min3(a, b, c) == Min2(a, Min2(b, c))
Max2(a, b) == IF a >= b THEN a ELSE b

Dollars(d) == d * MoneyScale
Cents(c) == c * (MoneyScale \div 100)

\* a / n for an integer n > 0, to the nearest unit
DivInt(a, n) == (2 * a + n) \div (2 * n)

\* x * f where f counts 1/RateScale: the product of the three-limb
\* expansions, rounded to the nearest unit, every partial product in range
MulRate(x, f) ==
    LET x0 == x % Limb
        x1 == (x \div Limb) % Limb
        x2 == x \div (Limb * Limb)
        f0 == f % Limb
        f1 == (f \div Limb) % Limb
        f2 == f \div (Limb * Limb)
        c0 == x0 * f0
        c1 == x1 * f0 + x0 * f1
        c2 == x2 * f0 + x1 * f1 + x0 * f2 + (Limb \div 2)
        c3 == x2 * f1 + x1 * f2
        c4 == x2 * f2
    IN  c4 * Limb + c3 + ((c2 + ((c1 + (c0 \div Limb)) \div Limb)) \div Limb)

\* quotient and remainder of t * Limb by d, for 0 <= t < d: directly when
\* the product is in range, else from the estimate t \div (d \div Limb + 1),
\* which is the quotient or one less
DivLimb(t, d) ==
    IF d <= 2 * Limb * Limb
    THEN [q |-> (t * Limb) \div d, r |-> (t * Limb) % d]
    ELSE LET dh == d \div Limb
             dl == d % Limb
             q0 == t \div (dh + 1)
             r0 == ((t % (dh + 1)) + q0) * Limb - q0 * dl
         IN  IF r0 >= d THEN [q |-> q0 + 1, r |-> r0 - d]
             ELSE [q |-> q0, r |-> r0]

\* the next limbs of a quotient: acc extended by the quotient of r * Limb
\* by f, limb after limb, the last one rounded to the nearest
RECURSIVE DivLimbs(_, _, _, _)
DivLimbs(r, f, limbs, acc) ==
    IF limbs = 0 THEN acc + (IF 2 * r >= f THEN 1 ELSE 0)
    ELSE LET d == DivLimb(r, f)
         IN  DivLimbs(d.r, f, limbs - 1, acc * Limb + d.q)

\* x / f where f counts 1/RateScale, f > 0, to the nearest unit: long
\* division, one limb of the quotient at a time
DivRate(x, f) == (x \div f) * RateScale + DivLimbs(x % f, f, 3, 0)

\* f ** n for a factor f and an integer n >= 0, by squaring
RECURSIVE PowRate(_, _)
PowRate(f, n) ==
    IF n = 0 THEN RateScale
    ELSE LET h == PowRate(f, n \div 2)
             sq == MulRate(h, h)
         IN  IF n % 2 = 1 THEN MulRate(sq, f) ELSE sq

\* a decimal m * 10^-e as a count of 1/RateScale
ToRate(d) ==
    IF d.e <= 9 THEN d.m * Pow10(9 - d.e)
    ELSE DivInt(d.m, Pow10(d.e - 9))

Dec(m, e) == [m |-> m, e |-> e]

\* x ** (1/12) for a factor x >= 1: Newton's iteration on y ** 12 = x,
\* from y = 1 + (x - 1) / 12, which is not below the root
RECURSIVE NewtonRoot12(_, _, _)
NewtonRoot12(x, y, rounds) ==
    IF rounds = 0 THEN y
    ELSE LET p11 == PowRate(y, 11)
             excess == MulRate(p11, y) - x
         IN  NewtonRoot12(x, y - DivInt(DivRate(excess, p11), 12), rounds - 1)

Root12(x) == NewtonRoot12(x, RateScale + DivInt(x - RateScale, 12), 4)

(* ------------------------ calculate_minimum_payment -------------------- *)

EpsDigits == 10

\* abs(f) < 10^-EpsDigits for f counting 1/RateScale = 10^-9
BelowEps(f) == Abs(f) * Pow10(EpsDigits - 9) < 1

Raised(msg) == [error |-> msg]
Returned(v) == [error |-> "none", value |-> v]

\* the validation with a loan amount of 0 let through
InvalidInput_ZeroAmount(a, r, n) == a < 0 \/ r.m < 0 \/ n <= 0

\* the three conditions under which ValueError is raised
InvalidInput(a, r, n) == a <= 0 \/ r.m < 0 \/ n <= 0

calculate_minimum_payment(a, r, n) ==
    IF InvalidInput(a, r, n) THEN Raised("ValueError")
    ELSE IF r.m = 0 THEN Returned(DivInt(a, n))
    ELSE LET monthly_rate == DivInt(ToRate(r), 12)
             growth == PowRate(RateScale + monthly_rate, n)
             denominator == growth - RateScale
             \* numerator / denominator, the amount factored out of the
             \* numerator so that the quotient is rounded relative to the
             \* payment, as a floating-point quotient is
             per_dollar == DivRate(MulRate(monthly_rate, growth), denominator)
         IN  IF BelowEps(denominator)
             THEN Returned(MulRate(a, RateScale + monthly_rate))
             ELSE Returned(MulRate(a, per_dollar))

(* ------------------------------- PaymentConfig ------------------------- *)

\* PaymentConfig.__init__: the minimum payment is derived from the loan
PaymentConfig(loan_amount, loan_rate, loan_term_months, target_payment, initial_savings, monthly_savings_payment, investment_rate, tax_rate, investment_type, excess_to_savings) ==
    LET min_payment ==
            calculate_minimum_payment(loan_amount, loan_rate, loan_term_months)
    IN  [loan_amount |-> loan_amount,
         loan_rate |-> loan_rate,
         loan_term_months |-> loan_term_months,
         target_payment |-> target_payment,
         initial_savings |-> initial_savings,
         minimum_payment |-> min_payment.value,
         investment_rate |-> investment_rate,
         tax_rate |-> tax_rate,
         investment_type |-> investment_type,
         monthly_savings_payment |-> monthly_savings_payment,
         excess_to_savings |-> excess_to_savings]

LoanState(bal, total_interest_paid, total_principal_paid) ==
    [balance |-> bal,
     total_interest_paid |-> total_interest_paid,
     total_principal_paid |-> total_principal_paid]

SavingsState(bal, total_returns, total_taxes_paid, total_pocket_money) ==
    [balance |-> bal,
     total_returns |-> total_returns,
     total_taxes_paid |-> total_taxes_paid,
     total_pocket_money |-> total_pocket_money]

(* ------------------------------- process_month ------------------------- *)

\* the annual rate charged every month, the twelfth root left out
CompoundMonthlyRate_Annual(annual) == ToRate(annual)

\* the growth factor of a month taken for its rate, the 1 not subtracted
CompoundMonthlyRate_Factor(annual) == Root12(RateScale + ToRate(annual))

\* (1 + annual) ** (1/12) - 1
CompoundMonthlyRate(annual) == Root12(RateScale + ToRate(annual)) - RateScale

\* what rounding can be for a loan balance: the sum balance + interest is
\* exact when the balance or the rate is 0
Roundings(cfg, bal) ==
    IF arithmetic = "rounded" /\ bal > 0 /\ cfg.loan_rate.m > 0
    THEN {0 - 1, 0, 1}
    ELSE {0}

\* the floating-point sum x + y: exact when a term is 0, else off by rounding
FloatSum(x, y) == IF x = 0 \/ y = 0 THEN x + y ELSE x + y + rounding

\* the interest charged in full, whatever the payment is
InterestPortion_Uncapped(monthly_interest, payment_from_income) ==
    monthly_interest

\* the part of the payment that covers interest: interest is served first
InterestPortion(monthly_interest, payment_from_income) ==
    Min2(monthly_interest, payment_from_income)

\* the payment out of income, given the interest of the month: what goes
\* to the loan, how it splits, and the excess routed to savings
IncomePayment(cfg, loan, monthly_interest) ==
    LET total_needed == FloatSum(loan.balance, monthly_interest)
        excess_payment == Max2(0, cfg.target_payment - cfg.minimum_payment)
        routed == /\ cfg.excess_to_savings
                  /\ excess_payment > 0
                  /\ loan.balance > 0
        payment_from_income ==
            IF routed
            THEN Min2(cfg.minimum_payment,
                      Min2(cfg.target_payment, total_needed))
            ELSE Min2(cfg.target_payment, total_needed)
        interest_payment == InterestPortion(monthly_interest, payment_from_income)
    IN  [monthly_interest |-> monthly_interest,
         payment_from_income |-> payment_from_income,
         savings_contribution |-> IF routed THEN excess_payment ELSE 0,
         interest_payment |-> interest_payment,
         principal_payment |-> payment_from_income - interest_payment]

\* the withdrawal considered whatever the routing flag says
SavingsPayment_Routed(cfg, loan, savings, principal_payment) ==
    IF loan.balance > 0
    THEN Min3(cfg.monthly_savings_payment,
              savings.balance,
              loan.balance - principal_payment)
    ELSE 0

\* min(monthly_savings_payment, savings balance, loan balance - principal),
\* or 0 when no withdrawal is considered
SavingsPayment(cfg, loan, savings, principal_payment) ==
    IF loan.balance > 0 /\ ~cfg.excess_to_savings
    THEN Min3(cfg.monthly_savings_payment,
              savings.balance,
              loan.balance - principal_payment)
    ELSE 0

\* a CD whose returns are not taxed
CDTax_None(cfg, monthly_return) ==
    0

\* the tax of a month of a CD: on the return of the month
CDTax(cfg, monthly_return) ==
    MulRate(monthly_return, ToRate(cfg.tax_rate))

\* the remaining balance of a STOCK without the tax of the withdrawal
StockReturnBasis_BeforeTax(savings, savings_payment, tax_payment) ==
    savings.balance - savings_payment

\* the balance of a STOCK that earns the return of the month: what is left
\* after the withdrawal and its tax
StockReturnBasis(savings, savings_payment, tax_payment) ==
    savings.balance - savings_payment - tax_payment

\* the savings of the month: the return, the tax, the withdrawal and the
\* principal payment with the withdrawal added
SavingsFlows(cfg, loan, savings, principal_payment) ==
    LET monthly_investment_rate == CompoundMonthlyRate(cfg.investment_rate)
        savings_payment ==
            SavingsPayment(cfg, loan, savings, principal_payment)
    IN  IF savings.balance > 0
        THEN IF cfg.investment_type = "CD"
             THEN LET monthly_return ==
                          MulRate(savings.balance, monthly_investment_rate)
                  IN  [monthly_return |-> monthly_return,
                       tax_payment |-> CDTax(cfg, monthly_return),
                       savings_payment |-> savings_payment,
                       principal_payment |->
                           IF savings_payment > 0
                           THEN principal_payment + savings_payment
                           ELSE principal_payment]
             ELSE LET tax_payment ==
                          IF savings_payment > 0
                          THEN MulRate(savings_payment, ToRate(cfg.tax_rate))
                          ELSE 0
                      remaining_balance ==
                          StockReturnBasis(savings, savings_payment, tax_payment)
                  IN  [monthly_return |->
                           MulRate(remaining_balance, monthly_investment_rate),
                       tax_payment |-> tax_payment,
                       savings_payment |-> savings_payment,
                       principal_payment |->
                           IF savings_payment > 0
                           THEN principal_payment + savings_payment
                           ELSE principal_payment]
        ELSE [monthly_return |-> 0, tax_payment |-> 0, savings_payment |-> 0,
              principal_payment |-> principal_payment]

\* the pocket money without its floor at 0
PocketMoney_Signed(cfg) == cfg.minimum_payment - cfg.target_payment

\* the pocket money with the two payments exchanged
PocketMoney_Swapped(cfg) == Max2(0, cfg.target_payment - cfg.minimum_payment)

\* the pocket money as the distance between the two payments
PocketMoney_Abs(cfg) == Abs(cfg.minimum_payment - cfg.target_payment)

\* max(0, minimum_payment - target_payment)
PocketMoney(cfg) == Max2(0, cfg.minimum_payment - cfg.target_payment)

\* the remainder of the target added to the routed excess in a payoff month
SavingsContribution_OnTop(cfg, new_loan_balance, inc) ==
    IF new_loan_balance = 0 /\ inc.payment_from_income < cfg.target_payment
    THEN inc.savings_contribution
           + (cfg.target_payment - inc.payment_from_income)
    ELSE inc.savings_contribution

\* the contribution with the payoff case left out
SavingsContribution_NoPayoff(cfg, new_loan_balance, inc) ==
    inc.savings_contribution

\* the contribution to savings: what is left of the target payment when the
\* new loan balance is exactly 0, else the excess routed to savings
SavingsContribution(cfg, new_loan_balance, inc) ==
    IF new_loan_balance = 0 /\ inc.payment_from_income < cfg.target_payment
    THEN cfg.target_payment - inc.payment_from_income
    ELSE inc.savings_contribution

\* the balance with the interest the payments did not cover carried into it
NewLoanBalance_InterestCarried(loan, inc, sv) ==
    loan.balance + inc.monthly_interest - inc.interest_payment
        - sv.principal_payment

\* new_loan_balance = loan_state.balance - principal_payment
NewLoanBalance(loan, inc, sv) ==
    loan.balance - sv.principal_payment

\* the cumulative principal with the withdrawal from savings left out
PrincipalPaid_FromIncome(loan, inc, sv) ==
    loan.total_principal_paid + inc.principal_payment

\* total_principal_paid = loan_state.total_principal_paid + principal_payment
PrincipalPaid(loan, inc, sv) ==
    loan.total_principal_paid + sv.principal_payment

\* the new states and the MonthlyResult, from the payment out of income
\* (inc) and the savings of the month (sv)
MonthlyResult(cfg, loan, savings, inc, sv) ==
    LET new_loan_balance == NewLoanBalance(loan, inc, sv)
        pocket_money == PocketMoney(cfg)
        savings_contribution == SavingsContribution(cfg, new_loan_balance, inc)
    IN  [new_loan_state |->
             LoanState(new_loan_balance,
                       loan.total_interest_paid + inc.interest_payment,
                       PrincipalPaid(loan, inc, sv)),
         new_savings_state |->
             SavingsState(savings.balance + sv.monthly_return - sv.tax_payment
                              - sv.savings_payment + savings_contribution,
                          savings.total_returns + sv.monthly_return,
                          savings.total_taxes_paid + sv.tax_payment,
                          savings.total_pocket_money + pocket_money),
         interest_payment |-> inc.interest_payment,
         principal_payment |-> sv.principal_payment,
         investment_returns |-> sv.monthly_return,
         tax_payment |-> sv.tax_payment,
         pocket_money |-> pocket_money,
         savings_contribution |-> savings_contribution]

WithSavings(cfg, loan, savings, inc) ==
    MonthlyResult(cfg, loan, savings, inc,
                  SavingsFlows(cfg, loan, savings, inc.principal_payment))

process_month(cfg, loan, savings) ==
    WithSavings(cfg, loan, savings,
                IncomePayment(cfg, loan,
                              MulRate(loan.balance,
                                      CompoundMonthlyRate(cfg.loan_rate))))

(* ------------------------- the amortization check ---------------------- *)
(* calculate_minimum_payment applied to an input, followed by the loop of  *)
(* assertPaymentIsCorrect that pays the loan down with the payment.        *)

MaxTerm == 3

Amounts == {Dollars(0 - 1000), 0, Dollars(1000), Dollars(12000)}
Rates == {Dec(0 - 5, 2), Dec(0, 0), Dec(1, 12), Dec(5, 2), Dec(12, 2)}
Terms == {0 - 12, 0, 12} \cup (1..MaxTerm)

NoPayment == [error |-> "pending"]
NoConfig == [loan_term_months |-> 0]
NoState == [balance |-> 0]
NoResult == [pocket_money |-> 0]
NoSeries == [loan_balance |-> <<>>]

InitPay ==
    /\ pc = "call"
    /\ amount \in Amounts
    /\ rate \in Rates
    /\ months \in Terms
    /\ payment = NoPayment
    /\ balance = 0
    /\ elapsed = 0
    /\ config = NoConfig
    /\ lump_sum = 0
    /\ loan_state = NoState
    /\ savings_state = NoState
    /\ monthly_result = NoResult
    /\ month = 0
    /\ arithmetic = "exact"
    /\ rounding = 0
    /\ result = NoSeries

\* payment = calculate_minimum_payment(amount, rate, months); balance = amount
Call ==
    /\ pc = "call"
    /\ payment' = calculate_minimum_payment(amount, rate, months)
    /\ pc' = IF payment'.error = "none" THEN "amortize" ELSE "raised"
    /\ balance' = amount
    /\ UNCHANGED <<amount, rate, months, elapsed, runVars>>

\* one round of the loop: interest, principal, balance -= principal
AmortizeMonth ==
    /\ pc = "amortize"
    /\ elapsed < months
    /\ LET monthly_rate == DivInt(ToRate(rate), 12)
           interest == MulRate(balance, monthly_rate)
           principal == payment.value - interest
       IN  balance' = balance - principal
    /\ elapsed' = elapsed + 1
    /\ UNCHANGED <<pc, amount, rate, months, payment, runVars>>

AmortizeDone ==
    /\ pc = "amortize"
    /\ elapsed = months
    /\ pc' = "amortized"
    /\ UNCHANGED <<payVars, runVars>>

NextPay == Call \/ AmortizeMonth \/ AmortizeDone

SpecPay == InitPay /\ [][NextPay]_vars

(* ------------------- claims on calculate_minimum_payment --------------- *)

\* the call has returned or raised
Called == pc \in {"raised", "amortize", "amortized"}

\* C1: calculate_minimum_payment raises ValueError, and returns no payment,
\* exactly when amount <= 0 or rate < 0 or months <= 0; for every other input
\* it returns a payment and raises nothing.
C1_Validation ==
    Called =>
        IF amount <= 0 \/ rate.m < 0 \/ months <= 0
        THEN /\ pc = "raised"
             /\ payment.error = "ValueError"
             /\ "value" \notin DOMAIN payment
        ELSE /\ pc # "raised"
             /\ payment.error = "none"
             /\ "value" \in DOMAIN payment

\* C1 happens: a call with a positive amount, a rate that is not negative
\* and a term that is not positive has raised ValueError
C1_Witness ==
    /\ pc = "raised"
    /\ amount > 0
    /\ rate.m >= 0
    /\ months <= 0
    /\ payment.error = "ValueError"

\* C2: for every valid input, paying the computed payment for the whole
\* term (interest = balance * rate / 12, principal = payment - interest,
\* balance -= principal) leaves the balance within 0.01 of zero.
C2_FullAmortization == pc = "amortized" => Abs(balance) <= Cents(1)

\* the sum of f ** k - 1 over 0 <= k < n
RECURSIVE GrowthExcess(_, _)
GrowthExcess(f, n) ==
    IF n = 0 THEN 0
    ELSE GrowthExcess(f, n - 1) + (PowRate(f, n - 1) - RateScale)

\* the reference payment of C3: amount / months at rate 0, else
\* amount * m * (1+m)^months / ((1+m)^months - 1) with m = rate / 12, whose
\* quotient ((1+m)^months - 1) / m is taken as the sum of (1+m)^k over
\* 0 <= k < months, the same number, which a rate below the resolution of
\* the factors does not turn into 0 / 0
ReferencePayment(a, r, n) ==
    IF r.m = 0 THEN DivInt(a, n)
    ELSE LET f == RateScale + DivInt(ToRate(r), 12)
             mean == RateScale + DivInt(GrowthExcess(f, n), n)
         IN  DivInt(MulRate(a, DivRate(PowRate(f, n), mean)), n)

\* C3: for every valid input the payment equals the reference formula (to
\* the cent): amount / months at rate 0, else the annuity formula with the
\* monthly rate rate / 12.
C3_EqualsReference ==
    pc \in {"amortize", "amortized"} =>
        Abs(payment.value - ReferencePayment(amount, rate, months)) <= Cents(1)

(* ------------------------------ run_simulation ------------------------- *)
(* The loop of run_simulation (simulation.py 57-110) over a configuration  *)
(* built by PaymentConfig, as test_simulation.py passes it (config=,        *)
(* lump_sum=), with process_month called as calculator.py defines it. As    *)
(* written, simulation.py imports DerivedConfig, which calculator.py does   *)
(* not define, and passes process_month a fourth argument.                  *)

LoanAmounts == {Dollars(1000), Dollars(100000)}
LoanRates == {Dec(0, 0), Dec(5, 2)}
TargetPayments == {0, Dollars(3), Dollars(300), Dollars(400), Dollars(2000)}
InitialSavings == {0, Dollars(50), Dollars(10000)}
MonthlySavingsPayments == {0, Dollars(100)}
InvestmentRates == {Dec(0, 0), Dec(7, 2)}
TaxRates == {Dec(0, 0), Dec(25, 2)}
InvestmentTypes == {"CD", "STOCK"}
LumpSums == {0, Dollars(200), Dollars(2000)}

\* a configuration: the target is one of TargetPayments or the minimum
\* payment itself
NewRun ==
    /\ pc = "run"
    /\ \E la \in LoanAmounts, lr \in LoanRates, n \in 1..MaxTerm :
         \E tp \in TargetPayments \cup {calculate_minimum_payment(la, lr, n).value},
            sv \in InitialSavings, msp \in MonthlySavingsPayments,
            ir \in InvestmentRates, tr \in TaxRates, it \in InvestmentTypes,
            ex \in BOOLEAN :
           config = PaymentConfig(la, lr, n, tp, sv, msp, ir, tr, it, ex)
    /\ lump_sum \in LumpSums
    /\ loan_state = NoState
    /\ savings_state = NoState
    /\ monthly_result = NoResult
    /\ month = 0
    /\ rounding = 0
    /\ result = NoSeries
    /\ amount = 0
    /\ rate = Dec(0, 0)
    /\ months = 0
    /\ payment = NoPayment
    /\ balance = 0
    /\ elapsed = 0

\* a run with the sum balance + interest exact
Init == arithmetic = "exact" /\ NewRun

\* a run with the sum balance + interest rounded
InitRounded == arithmetic = "rounded" /\ NewRun

\* the loop starting at month 1 also when no lump sum is given
FirstMonth_One == IF lump_sum >= 0 THEN 1 ELSE 0

\* where the loop over the months starts: 1 if lump_sum > 0 else 0
FirstMonth == IF lump_sum > 0 THEN 1 ELSE 0

\* the initial states, the lump sum and the first entry of every series
Start ==
    /\ pc = "run"
    /\ LET applies == lump_sum > 0 /\ config.initial_savings > 0
           actual_lump_sum ==
               Min3(lump_sum, config.initial_savings, config.loan_amount)
           loan0 == LoanState(config.loan_amount, 0, 0)
           savings0 == SavingsState(config.initial_savings, 0, 0, 0)
           loan1 == IF applies
                    THEN LoanState(loan0.balance - actual_lump_sum, 0,
                                   loan0.total_principal_paid + actual_lump_sum)
                    ELSE loan0
           savings1 == IF applies
                       THEN [savings0 EXCEPT
                                !.balance = savings0.balance - actual_lump_sum]
                       ELSE savings0
       IN  /\ loan_state' = loan1
           /\ savings_state' = savings1
           /\ rounding' \in Roundings(config, loan1.balance)
           /\ IF lump_sum > 0 /\ ~applies
              THEN \* actual_lump_sum is read but was never assigned
                   /\ pc' = "raised"
                   /\ UNCHANGED <<result, month>>
              ELSE /\ pc' = "loop"
                   /\ result' =
                        [loan_balance |-> <<loan1.balance>>,
                         savings_balance |-> <<savings1.balance>>,
                         pocket_money_balance |-> <<savings1.total_pocket_money>>,
                         loan_payments |->
                             <<IF lump_sum > 0 THEN actual_lump_sum ELSE 0>>,
                         principal_payments |->
                             <<IF lump_sum > 0 THEN actual_lump_sum ELSE 0>>,
                         interest_payments |-> <<0>>,
                         savings_contributions |-> <<0>>,
                         pocket_money |-> <<0>>,
                         total_pocket_money |-> 0]
                   /\ month' = FirstMonth
    /\ UNCHANGED <<arithmetic, config, lump_sum, monthly_result, payVars>>

\* one round of the loop: process_month, the new states, one entry appended
\* to every series
Month ==
    /\ pc = "loop"
    /\ month < config.loan_term_months
    /\ \E r \in {process_month(config, loan_state, savings_state)} :
           /\ monthly_result' = r
           /\ loan_state' = r.new_loan_state
           /\ savings_state' = r.new_savings_state
           /\ rounding' \in Roundings(config, r.new_loan_state.balance)
           /\ result' =
                [result EXCEPT
                    !.loan_balance = Append(@, r.new_loan_state.balance),
                    !.savings_balance = Append(@, r.new_savings_state.balance),
                    !.pocket_money_balance =
                        Append(@, r.new_savings_state.total_pocket_money),
                    !.loan_payments =
                        Append(@, r.interest_payment + r.principal_payment),
                    !.principal_payments = Append(@, r.principal_payment),
                    !.interest_payments = Append(@, r.interest_payment),
                    !.savings_contributions = Append(@, r.savings_contribution),
                    !.pocket_money = Append(@, r.pocket_money)]
    /\ month' = month + 1
    /\ UNCHANGED <<pc, arithmetic, config, lump_sum, payVars>>

\* after the loop: the total is the last cumulative pocket money
Finish ==
    /\ pc = "loop"
    /\ month >= config.loan_term_months
    /\ result' = [result EXCEPT
                    !.total_pocket_money = savings_state.total_pocket_money]
    /\ pc' = "done"
    /\ UNCHANGED <<arithmetic, config, lump_sum, loan_state, savings_state,
                   monthly_result, month, rounding, payVars>>

Next == Start \/ Month \/ Finish

Spec == Init /\ [][Next]_vars

SpecRounded == InitRounded /\ [][Next]_vars

(* --------------------------- claims on the runs ------------------------ *)

\* the series are being recorded
Recording == pc \in {"loop", "done"}

\* the number of entries of every series
Recorded == Len(result.loan_balance)

\* process_month has been called: the last entry of every series and
\* monthly_result are the outcome of the last call, the entry before it is
\* the state the call was made in
MonthProcessed == Recording /\ Recorded >= 2

\* the loan balance and the savings balance process_month was last called with
LoanBefore == result.loan_balance[Recorded - 1]
SavingsBefore == result.savings_balance[Recorded - 1]

\* what the last call withdrew from savings: what the new savings balance
\* lacks of the old one plus the return and the contribution less the tax
Withdrawn ==
    SavingsBefore + monthly_result.investment_returns
        - monthly_result.tax_payment + monthly_result.savings_contribution
        - result.savings_balance[Recorded]

\* what the last call paid to the loan out of the target payment
OutOfPocket == result.loan_payments[Recorded] - Withdrawn

\* C4: in every run the loan balance after every month is >= 0, and once it
\* is 0 after a month it is 0 after every later month.
C4_LoanNonNegative ==
    Recording =>
        \A i \in 1..Recorded :
            /\ result.loan_balance[i] >= 0
            /\ i > 1 /\ result.loan_balance[i - 1] = 0
                  => result.loan_balance[i] = 0

\* C5: the pocket money of every month is >= 0 and the cumulative pocket
\* money never decreases from one month to the next.
C5_PocketMoneyMonotone ==
    Recording =>
        \A i \in 1..Recorded :
            /\ result.pocket_money[i] >= 0
            /\ i > 1 => result.pocket_money_balance[i]
                            >= result.pocket_money_balance[i - 1]

\* C5 happens: two months with a target below the minimum payment have each
\* added pocket money to the cumulative pocket money
C5_Witness ==
    /\ MonthProcessed
    /\ Recorded >= 3
    /\ config.target_payment < config.minimum_payment
    /\ result.pocket_money[Recorded] > 0
    /\ result.pocket_money_balance[Recorded - 1] > 0
    /\ result.pocket_money_balance[Recorded]
          > result.pocket_money_balance[Recorded - 1]

\* C6: when process_month is called with a loan balance of 0, the principal
\* payment and the interest payment of the month are 0 and the savings
\* contribution is the whole target payment, so that the new savings balance
\* is the old one + return - tax + target payment, in both regimes and for
\* both values of the routing flag.
C6_PayoffReinvestment ==
    MonthProcessed /\ LoanBefore = 0 =>
        /\ monthly_result.principal_payment = 0
        /\ monthly_result.interest_payment = 0
        /\ monthly_result.savings_contribution = config.target_payment
        /\ result.savings_balance[Recorded] =
              SavingsBefore + monthly_result.investment_returns
                  - monthly_result.tax_payment + config.target_payment

\* C6 happens: a month with a positive target payment was processed on a
\* loan already paid off, with savings that earn a return
C6_Witness ==
    /\ MonthProcessed
    /\ LoanBefore = 0
    /\ config.target_payment > 0
    /\ SavingsBefore > 0
    /\ monthly_result.investment_returns > 0
    /\ monthly_result.savings_contribution = config.target_payment

C8_SimpleMonthlyRate ==
    LET simple == MulRate(LoanBefore, DivInt(ToRate(config.loan_rate), 12))
    IN  MonthProcessed /\ OutOfPocket >= simple =>
            Abs(monthly_result.interest_payment - simple) <= Cents(1)

\* C9 as stated: the pocket money of a month is max(0, minimum payment -
\* what was paid to the loan out of the target payment that month).
C9_FromActualPayment ==
    MonthProcessed =>
        monthly_result.pocket_money =
            Max2(0, config.minimum_payment - OutOfPocket)

\* C9, amended: the pocket money of a month is max(0, minimum payment -
\* target payment), whatever part of the target payment went to the loan.
C9_FromTargetPayment ==
    MonthProcessed =>
        monthly_result.pocket_money =
            Max2(0, config.minimum_payment - config.target_payment)

\* C9 happens: with a target below the minimum payment, a month paid less
\* than the target to the loan and its pocket money is minimum payment -
\* target payment
C9_Witness ==
    /\ MonthProcessed
    /\ config.target_payment < config.minimum_payment
    /\ OutOfPocket < config.target_payment
    /\ monthly_result.pocket_money =
          config.minimum_payment - config.target_payment

\* C10: starting from savings >= 0, with a return rate >= 0, a tax rate in
\* [0, 1] and a monthly savings payment >= 0, the savings balance after
\* every month is >= 0, in both regimes.
C10_SavingsNonNegative ==
    Recording => \A i \in 1..Recorded : result.savings_balance[i] >= 0

\* run_simulation has built its result or raised
Started == pc # "run"

\* min(lump_sum, initial_savings, loan_amount) for a lump sum, else 0
LumpSumDue ==
    IF lump_sum > 0
    THEN Min3(lump_sum, config.initial_savings, config.loan_amount)
    ELSE 0

\* C11: for lump_sum > 0 the run applies min(lump_sum, initial_savings,
\* loan_amount) before any month is processed, so that entry 0 of the result
\* has the loan balance and the savings balance less that amount, that amount
\* as principal payment and as loan payment, and interest 0; for lump_sum = 0
\* entry 0 has the loan amount, the initial savings and payments of 0.
C11_LumpSumEntry ==
    Started =>
        /\ pc # "raised"
        /\ Len(result.loan_balance) >= 1
        /\ result.loan_balance[1] = config.loan_amount - LumpSumDue
        /\ result.savings_balance[1] = config.initial_savings - LumpSumDue
        /\ result.principal_payments[1] = LumpSumDue
        /\ result.loan_payments[1] = LumpSumDue
        /\ result.interest_payments[1] = 0

\* C12: every run covers the whole term: with or without a lump sum, and
\* also when the loan is paid off during the run or by the lump sum, the
\* loan_balance sequence of the result has loan_term_months + 1 entries.
C12_FullTerm ==
    pc = "done" => Len(result.loan_balance) = config.loan_term_months + 1

\* the eight sequences of the result all have n entries
AllOfLength(n) ==
    /\ Len(result.loan_balance) = n
    /\ Len(result.savings_balance) = n
    /\ Len(result.pocket_money_balance) = n
    /\ Len(result.loan_payments) = n
    /\ Len(result.principal_payments) = n
    /\ Len(result.interest_payments) = n
    /\ Len(result.savings_contributions) = n
    /\ Len(result.pocket_money) = n

C14_NoPocketMoney ==
    Recording /\ config.target_payment >= config.minimum_payment =>
        /\ \A i \in 1..Recorded :
              /\ result.pocket_money[i] = 0
              /\ result.pocket_money_balance[i] = 0
        /\ result.total_pocket_money = 0

\* C14 happens: a run with a target above the minimum payment has ended
\* after a month processed on a loan already paid off
C14_Witness ==
    /\ pc = "done"
    /\ config.target_payment > config.minimum_payment
    /\ Recorded >= 3
    /\ LoanBefore = 0
    /\ result.loan_balance[1] > 0
    /\ result.total_pocket_money = 0

\* the run pays the minimum payment and nothing else: no lump sum, no
\* monthly savings payment, no routing of an excess
ScheduledRun ==
    /\ lump_sum = 0
    /\ config.target_payment = config.minimum_payment
    /\ config.monthly_savings_payment = 0
    /\ ~config.excess_to_savings

\* C15: when the target payment is the minimum payment, with no lump sum, no
\* withdrawal from savings and the routing flag false, the loan balance
\* recorded after month loan_term_months is below 1.
C15_PaidOffAtTermEnd ==
    pc = "done" /\ ScheduledRun =>
        /\ Recorded = config.loan_term_months + 1
        /\ result.loan_balance[config.loan_term_months + 1] < Dollars(1)

\* C15 happens: such a run on a loan that bears interest still had a balance
\* before its last month and has ended with a balance below 1
C15_Witness ==
    /\ pc = "done"
    /\ ScheduledRun
    /\ config.loan_rate.m > 0
    /\ config.loan_term_months >= 2
    /\ LoanBefore >= Dollars(1)
    /\ result.loan_balance[Recorded] < Dollars(1)

\* a run at rate 0 on both sides and no tax, with no lump sum, no monthly
\* savings payment and a target payment of loan_amount / loan_term_months
ZeroInterestRun ==
    /\ config.loan_rate.m = 0
    /\ config.investment_rate.m = 0
    /\ config.tax_rate.m = 0
    /\ lump_sum = 0
    /\ config.monthly_savings_payment = 0
    /\ config.target_payment =
          DivInt(config.loan_amount, config.loan_term_months)

\* C16: in such a run the recorded loan balance decreases linearly,
\* loan_balance[i] = loan_amount - i * target_payment for every i in
\* 0..loan_term_months - 1, and every entry of interest_payments is 0.
C16_LinearPaydown ==
    Recording /\ ZeroInterestRun =>
        \A i \in 1..Recorded :
            /\ i <= config.loan_term_months =>
                  result.loan_balance[i] =
                      config.loan_amount - (i - 1) * config.target_payment
            /\ result.interest_payments[i] = 0

\* C16 happens: a zero-interest run of several months has ended, the loan
\* still owed before its last month
C16_Witness ==
    /\ pc = "done"
    /\ ZeroInterestRun
    /\ config.loan_term_months >= 2
    /\ Recorded = config.loan_term_months + 1
    /\ result.loan_balance[config.loan_term_months] > 0
    /\ result.loan_balance[2] = config.loan_amount - config.target_payment

(* ------------------- process_month called on given states ------------- *)
(* A configuration, a loan state and a savings state built by the caller,   *)
(* as the tests of TestProcessMonth build them, and process_month called on *)
(* them, twice: the caller still holds the three objects after each call.   *)

\* the balances of the loan states given to process_month
LoanBalances(cfg) == {0, Dollars(100), cfg.loan_amount}

InitMonth ==
    /\ pc = "test"
    /\ arithmetic = "exact"
    /\ \E la \in LoanAmounts, lr \in LoanRates, n \in 1..MaxTerm :
         \E tp \in TargetPayments \cup {calculate_minimum_payment(la, lr, n).value},
            sv \in InitialSavings, msp \in MonthlySavingsPayments,
            ir \in InvestmentRates, tr \in TaxRates, it \in InvestmentTypes,
            ex \in BOOLEAN :
           /\ config = PaymentConfig(la, lr, n, tp, sv, msp, ir, tr, it, ex)
           /\ savings_state = SavingsState(sv, 0, 0, 0)
    /\ \E bal \in LoanBalances(config) :
           /\ loan_state = LoanState(bal, 0, 0)
           /\ rounding \in Roundings(config, bal)
    /\ monthly_result = NoResult
    /\ lump_sum = 0
    /\ month = 0
    /\ result = NoSeries
    /\ amount = 0
    /\ rate = Dec(0, 0)
    /\ months = 0
    /\ payment = NoPayment
    /\ balance = 0
    /\ elapsed = 0

\* the call writing the new states into the objects it was given
ProcessMonthCall_InPlace ==
    /\ pc \in {"test", "called"}
    /\ \E r \in {process_month(config, loan_state, savings_state)} :
           /\ monthly_result' = r
           /\ loan_state' = r.new_loan_state
           /\ savings_state' = r.new_savings_state
    /\ pc' = IF pc = "test" THEN "called" ELSE "called again"
    /\ UNCHANGED <<arithmetic, config, lump_sum, month, rounding, result,
                   payVars>>

\* result = process_month(config, loan_state, savings_state): the function
\* assigns to no attribute of its arguments, the new states are built by
\* LoanState(...) and SavingsState(...)
ProcessMonthCall ==
    /\ pc \in {"test", "called"}
    /\ monthly_result' = process_month(config, loan_state, savings_state)
    /\ pc' = IF pc = "test" THEN "called" ELSE "called again"
    /\ UNCHANGED <<arithmetic, config, loan_state, savings_state, lump_sum,
                   month, rounding, result, payVars>>

NextMonth == ProcessMonthCall

SpecMonth == InitMonth /\ [][NextMonth]_vars

(* ------------------------- claims on process_month --------------------- *)

MonthReturned == pc \in {"called", "called again"}

\* the interest of the month on the given loan balance
InterestThisMonth ==
    MulRate(loan_state.balance, CompoundMonthlyRate(config.loan_rate))

\* the investment rate of one month
MonthlyInvestmentRate == CompoundMonthlyRate(config.investment_rate)

\* what the savings paid to the loan, seen from the loan: the principal paid
\* less the principal paid out of income
WithdrawnToLoan ==
    monthly_result.principal_payment
      - IncomePayment(config, loan_state, InterestThisMonth).principal_payment

\* C18: with investment type CD and a positive savings balance, the return of
\* the month is the balance at the start of the month times the monthly
\* investment rate, whatever is withdrawn or contributed; the tax is that
\* return times the tax rate, so a withdrawal carries no tax; and the new
\* balance is the old one plus the return, less the tax, less the
\* withdrawal, plus the contribution.
C18_CDRegime ==
    (/\ MonthReturned
     /\ config.investment_type = "CD"
     /\ savings_state.balance > 0)
    => /\ monthly_result.investment_returns
            = MulRate(savings_state.balance, MonthlyInvestmentRate)
       /\ monthly_result.tax_payment
            = MulRate(monthly_result.investment_returns,
                      ToRate(config.tax_rate))
       /\ monthly_result.new_savings_state.balance
            = savings_state.balance + monthly_result.investment_returns
                - monthly_result.tax_payment - WithdrawnToLoan
                + monthly_result.savings_contribution

\* a CD that earns a taxed return in a month with a withdrawal
C18_Witness ==
    /\ MonthReturned
    /\ config.investment_type = "CD"
    /\ savings_state.balance > 0
    /\ WithdrawnToLoan > 0
    /\ monthly_result.investment_returns > 0
    /\ monthly_result.tax_payment > 0
    /\ monthly_result.tax_payment < monthly_result.investment_returns

\* C19: with investment type STOCK and a positive savings balance, the tax is
\* the withdrawal times the tax rate; the return is earned on the balance
\* left after the withdrawal and its tax; and the new balance is the old one
\* less the withdrawal, less the tax, plus the return, plus the
\* contribution.
C19_StockRegime ==
    (/\ MonthReturned
     /\ config.investment_type = "STOCK"
     /\ savings_state.balance > 0)
    => /\ monthly_result.tax_payment
            = MulRate(WithdrawnToLoan, ToRate(config.tax_rate))
       /\ monthly_result.investment_returns
            = MulRate(savings_state.balance - WithdrawnToLoan
                        - monthly_result.tax_payment,
                      MonthlyInvestmentRate)
       /\ monthly_result.new_savings_state.balance
            = savings_state.balance - WithdrawnToLoan
                - monthly_result.tax_payment
                + monthly_result.investment_returns
                + monthly_result.savings_contribution

\* a STOCK with a taxed withdrawal and a return on what is left
C19_Witness ==
    /\ MonthReturned
    /\ config.investment_type = "STOCK"
    /\ savings_state.balance > 0
    /\ WithdrawnToLoan > 0
    /\ monthly_result.tax_payment > 0
    /\ monthly_result.investment_returns > 0
    /\ monthly_result.investment_returns
         < MulRate(savings_state.balance - WithdrawnToLoan,
                   MonthlyInvestmentRate)

\* what the savings paid out, seen from the savings: the old balance with
\* the return, the tax and the contribution of the month, less the new one
WithdrawnFromSavings ==
    savings_state.balance + monthly_result.investment_returns
      - monthly_result.tax_payment + monthly_result.savings_contribution
      - monthly_result.new_savings_state.balance

\* what the loan needs to be paid off this month
TotalNeeded == loan_state.balance + InterestThisMonth

\* C20: with the routing flag false, the payment out of pocket is the
\* smaller of the target payment and the loan balance plus the interest of
\* the month; interest is served first, up to that payment, and the rest is
\* principal; and when the target does not exceed what the loan needs, the
\* whole target goes to the loan and nothing is contributed to savings.
C20_InterestFirst ==
    (MonthReturned /\ ~config.excess_to_savings)
    => /\ monthly_result.interest_payment
            = Min2(InterestThisMonth, Min2(config.target_payment, TotalNeeded))
       /\ monthly_result.principal_payment - WithdrawnFromSavings
            = Min2(config.target_payment, TotalNeeded)
                - monthly_result.interest_payment
       /\ config.target_payment <= TotalNeeded
            => /\ monthly_result.interest_payment
                    + monthly_result.principal_payment
                    - WithdrawnFromSavings = config.target_payment
               /\ monthly_result.savings_contribution = 0

\* a target above the minimum and below what the loan needs, all of it
\* paid to the loan, interest first and the rest to principal
C20_Witness ==
    /\ MonthReturned
    /\ ~config.excess_to_savings
    /\ config.target_payment > config.minimum_payment
    /\ config.target_payment < TotalNeeded
    /\ monthly_result.interest_payment = InterestThisMonth
    /\ monthly_result.interest_payment > 0
    /\ monthly_result.principal_payment - WithdrawnFromSavings
         = config.target_payment - InterestThisMonth
    /\ monthly_result.principal_payment - WithdrawnFromSavings > 0
    /\ monthly_result.savings_contribution = 0

(* ---------------------- further claims on the runs --------------------- *)

\* the last call left the loan at exactly 0 and paid it less out of pocket
\* than the target payment
PayoffWithRemainder ==
    /\ MonthProcessed
    /\ result.loan_balance[Recorded] = 0
    /\ OutOfPocket < config.target_payment

\* the excess the last call routed to savings (step 3): the target payment
\* less the minimum payment when the flag is set, the target exceeds the
\* minimum and the loan had a balance
RoutedExcess ==
    IF /\ config.excess_to_savings
       /\ config.target_payment > config.minimum_payment
       /\ LoanBefore > 0
    THEN config.target_payment - config.minimum_payment
    ELSE 0

\* C21 as stated: in a month that leaves the loan at exactly 0 with less
\* than the target payment paid to it out of pocket, the savings
\* contribution is the routed excess plus the unspent remainder of the
\* target payment.
C21_OnTopOfExcess ==
    PayoffWithRemainder =>
        monthly_result.savings_contribution
            = RoutedExcess + (config.target_payment - OutOfPocket)

\* C21: in a month that leaves the loan at exactly 0 with less than the
\* target payment paid to it out of pocket, the savings contribution is the
\* unspent remainder of the target payment, which takes the place of the
\* routed excess.
C21_RemainderOnly ==
    PayoffWithRemainder =>
        monthly_result.savings_contribution
            = config.target_payment - OutOfPocket

\* C21 happens: a month with excess routing in force paid the loan off with
\* less than the minimum payment
C21_Witness ==
    /\ PayoffWithRemainder
    /\ RoutedExcess > 0
    /\ OutOfPocket > 0
    /\ OutOfPocket < config.minimum_payment
    /\ monthly_result.savings_contribution > RoutedExcess
    /\ monthly_result.savings_contribution
         = config.target_payment - OutOfPocket

\* C26: over a run the loan balance never goes up: after every month it is
\* <= the balance before the month, also in the months where the target
\* payment and the withdrawal together are smaller than the interest.
C26_LoanNonIncreasing ==
    Recording =>
        \A i \in 2..Recorded :
            result.loan_balance[i] <= result.loan_balance[i - 1]

\* C26 happens: the last month of a finished run paid the loan less than
\* the interest of the month, part of it withdrawn from savings, and left a
\* lower balance
C26_Witness ==
    /\ pc = "done"
    /\ Recorded >= 3
    /\ config.target_payment > 0
    /\ result.loan_payments[Recorded]
         < MulRate(LoanBefore, CompoundMonthlyRate(config.loan_rate))
    /\ Withdrawn > 0
    /\ result.loan_balance[Recorded] < LoanBefore
    /\ result.loan_balance[Recorded] > 0

\* the number of times the loop has called process_month: one entry is
\* appended per call, after the initial entry
Invocations == Recorded - 1

\* C27: the driver calls process_month loan_term_months - 1 times when
\* lump_sum > 0 and loan_term_months times when lump_sum = 0; every call
\* appends its entry, and the states it returns are the ones the next call
\* is given.
C27_InvocationCount ==
    /\ pc # "raised"
    /\ Recording => Invocations = month - FirstMonth
    /\ pc = "done"
         => Invocations = IF lump_sum > 0
                          THEN config.loan_term_months - 1
                          ELSE config.loan_term_months
    /\ MonthProcessed
         => /\ loan_state = monthly_result.new_loan_state
            /\ savings_state = monthly_result.new_savings_state
            /\ result.loan_balance[Recorded] = loan_state.balance
            /\ result.savings_balance[Recorded] = savings_state.balance

\* C28: a run with lump_sum > 0 and initial savings of 0 completes
\* normally: the lump sum applied is 0, entry 0 has the loan and the
\* savings balances unchanged and a loan payment and a principal payment
\* of 0, and nothing is raised.
C28_LumpSumWithoutSavings ==
    (Started /\ lump_sum > 0 /\ config.initial_savings = 0)
    => /\ pc # "raised"
       /\ Len(result.loan_balance) >= 1
       /\ result.loan_balance[1] = config.loan_amount
       /\ result.savings_balance[1] = 0
       /\ result.loan_payments[1] = 0
       /\ result.principal_payments[1] = 0

\* the sum of the first n entries of a sequence
RECURSIVE SumTo(_, _)
SumTo(seq, n) == IF n = 0 THEN 0 ELSE SumTo(seq, n - 1) + seq[n]

\* C29: at every recorded point of a run, after the lump sum and after
\* every month, the loan balance plus the principal paid so far is the
\* original loan amount; the lump sum and the withdrawals from savings
\* count as principal paid.
C29_PrincipalConservation ==
    Recording =>
        /\ loan_state.balance + loan_state.total_principal_paid
             = config.loan_amount
        /\ \A i \in 1..Recorded :
              result.loan_balance[i] + SumTo(result.principal_payments, i)
                = config.loan_amount

\* C29 happens: a finished run that began with a lump sum and whose last
\* month paid principal out of pocket and from savings
C29_Witness ==
    /\ pc = "done"
    /\ Recorded >= 3
    /\ result.principal_payments[1] > 0
    /\ Withdrawn > 0
    /\ monthly_result.principal_payment > Withdrawn
    /\ loan_state.balance > 0
    /\ loan_state.total_principal_paid
         = SumTo(result.principal_payments, Recorded)

\* C30: in every month called with a loan balance >= 0, what is paid to the
\* loan out of pocket (interest payment + principal payment less the
\* withdrawal from savings) plus the savings contribution is exactly the
\* target payment, in both regimes and for both values of the routing flag.
C30_TargetConservation ==
    (MonthProcessed /\ LoanBefore >= 0)
    => OutOfPocket + monthly_result.savings_contribution
         = config.target_payment

(* -------------------- further claims on process_month ------------------ *)

\* the savings balance a withdrawal can draw on: the whole balance in the
\* CD regime, the balance divided by 1 + tax rate in the STOCK regime
AvailableBalance ==
    IF config.investment_type = "CD"
    THEN savings_state.balance
    ELSE DivRate(savings_state.balance, RateScale + ToRate(config.tax_rate))

\* what the call paid to the loan out of pocket
PaidOutOfPocket ==
    monthly_result.interest_payment + monthly_result.principal_payment
        - WithdrawnFromSavings

\* C22: whenever a withdrawal is made, its amount is the smallest of the
\* monthly savings payment, the available balance (the savings balance in
\* the CD regime, the savings balance divided by 1 + tax rate in the STOCK
\* regime) and what the loan still needs after the payment out of pocket;
\* and the total paid to the loan does not exceed balance + interest.
C22_WithdrawalAmount ==
    (MonthReturned /\ WithdrawnFromSavings > 0)
    => /\ WithdrawnFromSavings
            = Min3(config.monthly_savings_payment,
                   AvailableBalance,
                   TotalNeeded - PaidOutOfPocket)
       /\ monthly_result.interest_payment + monthly_result.principal_payment
            <= TotalNeeded

\* C23: when the payment out of pocket is smaller than the interest of the
\* month and a withdrawal is made, the withdrawal goes first to the unpaid
\* interest, raising the interest payment up to the interest of the month,
\* and only the remainder is added to the principal payment.
C23_WithdrawalInterestFirst ==
    (/\ MonthReturned
     /\ PaidOutOfPocket < InterestThisMonth
     /\ WithdrawnFromSavings > 0)
    => /\ monthly_result.interest_payment
            = Min2(InterestThisMonth, PaidOutOfPocket + WithdrawnFromSavings)
       /\ monthly_result.principal_payment
            = PaidOutOfPocket + WithdrawnFromSavings
                - Min2(InterestThisMonth,
                       PaidOutOfPocket + WithdrawnFromSavings)

\* excess routing was applied in the call (step 3)
RoutingApplied ==
    /\ config.excess_to_savings
    /\ config.target_payment > config.minimum_payment
    /\ loan_state.balance > 0

\* C24: a withdrawal is made exactly when the loan balance is > 0 (and the
\* payment out of pocket leaves some of it to pay), the monthly savings
\* payment is > 0, the savings balance is > 0 and excess routing was not
\* applied in the month; so with excess_to_savings set and a target payment
\* not above the minimum payment the withdrawal takes place.
C24_WithdrawalCondition ==
    MonthReturned =>
        (WithdrawnFromSavings > 0
           <=> /\ loan_state.balance > 0
               /\ TotalNeeded - PaidOutOfPocket > 0
               /\ config.monthly_savings_payment > 0
               /\ savings_state.balance > 0
               /\ ~RoutingApplied)

\* C25: the new loan balance is max(0, old balance + interest of the month
\* - interest paid - principal paid), so that interest the payments do not
\* cover is carried into the balance; and the cumulative interest paid and
\* principal paid grow by the interest payment and the principal payment
\* of the month.
C25_LoanStateUpdate ==
    MonthReturned =>
        /\ monthly_result.new_loan_state.balance
             = Max2(0, loan_state.balance + InterestThisMonth
                         - monthly_result.interest_payment
                         - monthly_result.principal_payment)
        /\ monthly_result.new_loan_state.total_interest_paid
             = loan_state.total_interest_paid + monthly_result.interest_payment
        /\ monthly_result.new_loan_state.total_principal_paid
             = loan_state.total_principal_paid
                 + monthly_result.principal_payment

====
